---- MODULE Spec2Model ----
(***************************************************************************)
(* Model of chainlink's dependency commands (src/commands/deps.rs) and of  *)
(* its tree printer (src/commands/tree.rs), over the issue store they      *)
(* call (crate::db::Database).                                             *)
(*                                                                         *)
(* The store is a table of issues (id = row number, ids are handed out     *)
(* 1, 2, 3, ...) and a table of dependency rows; the rows are a bag, so    *)
(* that "recorded exactly once" is a statement about the model and not     *)
(* about its data type.  Titles, descriptions and priorities play no part  *)
(* in the behaviour modelled here and are left out.                        *)
(***************************************************************************)
EXTENDS Integers, Sequences, FiniteSets, Bags, TLC

\* ------------------------------------------------------------------ bounds
\* issues the store may hold in the dependency specification
MaxIssues == 3
\* dependency rows the store may hold
MaxEdges == 2
\* issues the store may hold in the specification of all commands
MaxSpecIssues == 2
\* issues the store may hold when tree::run is followed call by call
MaxWalkIssues == 3
\* issues the store may hold in the tree specification
MaxTreeIssues == 4
\* the store read (1 = list_issues, 2.. = get_subissues) that may fail
MaxFailAt == 3

\* ids a caller may pass: every id the store can hand out; one that has
\* not been handed out yet is the id of no issue
ArgIds == 1..MaxIssues

\* Option<&str> status filters of tree::run
NoFilter == "<none>"
Filters == {NoFilter, "all", "open", "closed"}

VARIABLES
    issues,        \* the issues table: issues[id] = [status, parent_id]
    dependencies,  \* the dependencies table: a bag of <<issue_id, blocker_id>>
    call,          \* the command that ran last and its arguments
    result,        \* what it returned: Ok, or the error
    stdout,        \* what it printed
    walk           \* a run of tree::run in progress, call by call

vars == <<issues, dependencies, call, result, stdout, walk>>

\* ------------------------------------------------------------- the store
\* parent_id = NoParent is Option::None
NoParent == 0

Ids(db) == 1..Len(db)

\* Database::get_issue(id).is_some()
issue_exists(db, id) == id \in Ids(db)

\* all ids of a set in ascending order
RECURSIVE Ascending(_)
Ascending(S) ==
    IF S = {} THEN <<>>
    ELSE LET m == CHOOSE x \in S : \A y \in S : x <= y
         IN <<m>> \o Ascending(S \ {m})

SeqToSet(s) == {s[k] : k \in 1..Len(s)}

\* Database::create_issue / create_subissue: a new open row, the next id
insert_issue(db, parent_id) ==
    Append(db, [status |-> "open", parent_id |-> parent_id])

\* Database::close_issue / reopen_issue
set_status(db, id, st) == [db EXCEPT ![id].status = st]

\* the distinct edges recorded
Edges(deps) == BagToSet(deps)

\* Database::add_dependency: true iff a row was inserted
dependency_added(deps, issue_id, blocker_id) ==
    ~ BagIn(<<issue_id, blocker_id>>, deps)

add_dependency(deps, issue_id, blocker_id) ==
    IF BagIn(<<issue_id, blocker_id>>, deps) THEN deps
    ELSE deps (+) SetToBag({<<issue_id, blocker_id>>})

\* Database::remove_dependency: true iff a row was deleted
dependency_removed(deps, issue_id, blocker_id) ==
    BagIn(<<issue_id, blocker_id>>, deps)

remove_dependency(deps, issue_id, blocker_id) ==
    [e \in Edges(deps) \ {<<issue_id, blocker_id>>} |-> deps[e]]

\* Database::get_blockers: one entry per row whose issue_id is the issue
RECURSIVE Repeat(_, _)
Repeat(x, n) == IF n = 0 THEN <<>> ELSE <<x>> \o Repeat(x, n - 1)

RECURSIVE blockers_from(_, _, _)
blockers_from(deps, issue_id, bs) ==
    IF bs = <<>> THEN <<>>
    ELSE Repeat(Head(bs), deps[<<issue_id, Head(bs)>>])
             \o blockers_from(deps, issue_id, Tail(bs))

get_blockers(deps, issue_id) ==
    blockers_from(deps, issue_id,
        Ascending({e[2] : e \in {x \in Edges(deps) : x[1] = issue_id}}))

\* Database::list_blocked_issues: the issues with at least one dependency row
list_blocked_issues(db, deps) ==
    Ascending({i \in Ids(db) : \E e \in Edges(deps) : e[1] = i})

\* Database::list_ready_issues: the open issues with no open blocker
list_ready_issues(db, deps) ==
    Ascending({i \in Ids(db) :
        /\ db[i].status = "open"
        /\ ~ \E e \in Edges(deps) :
               /\ e[1] = i
               /\ issue_exists(db, e[2])
               /\ db[e[2]].status = "open"})

\* Database::list_issues(status_filter, None, None)
list_issues(db, status_filter) ==
    Ascending({i \in Ids(db) :
        status_filter \in {NoFilter, "all"} \/ db[i].status = status_filter})

\* Database::get_subissues(parent_id): direct children, ascending id
get_subissues(db, parent_id) ==
    Ascending({i \in Ids(db) : db[i].parent_id = parent_id})

\* ------------------------------------------------------- results, output
Ok == [kind |-> "Ok", id |-> 0]
NotFound(id) == [kind |-> "NotFound", id |-> id]
SelfBlock == [kind |-> "SelfBlock", id |-> 0]
StoreError == [kind |-> "StoreError", id |-> 0]

\* one println!: the text, and the issue the line is about (0: none)
Line(text, id, indent, blockers) ==
    [text |-> text, id |-> id, indent |-> indent, blockers |-> blockers]
Msg(text) == Line(text, 0, 0, <<>>)

Call(op, a, b, filter, failAt) ==
    [op |-> op, a |-> a, b |-> b, filter |-> filter, failAt |-> failAt]

\* ------------------------------------------------------------ deps.rs
\* what a command leaves behind: its return value, the dependencies table
\* and the lines printed
Outcome(res, deps, out) == [result |-> res, deps |-> deps, stdout |-> out]

\* block with the two ids handed to add_dependency in the wrong order
block_outcome_swapped(db, deps, issue_id, blocker_id) ==
    IF ~ issue_exists(db, issue_id) THEN Outcome(NotFound(issue_id), deps, <<>>)
    ELSE IF ~ issue_exists(db, blocker_id)
         THEN Outcome(NotFound(blocker_id), deps, <<>>)
    ELSE IF issue_id = blocker_id THEN Outcome(SelfBlock, deps, <<>>)
    ELSE IF dependency_added(deps, blocker_id, issue_id)
         THEN Outcome(Ok, add_dependency(deps, blocker_id, issue_id),
                  <<Line("is now blocked by", issue_id, 0, <<blocker_id>>)>>)
         ELSE Outcome(Ok, add_dependency(deps, blocker_id, issue_id),
                  <<Msg("Dependency already exists")>>)

\* block without the self-block test
block_outcome_noselftest(db, deps, issue_id, blocker_id) ==
    IF ~ issue_exists(db, issue_id) THEN Outcome(NotFound(issue_id), deps, <<>>)
    ELSE IF ~ issue_exists(db, blocker_id)
         THEN Outcome(NotFound(blocker_id), deps, <<>>)
    ELSE IF dependency_added(deps, issue_id, blocker_id)
         THEN Outcome(Ok, add_dependency(deps, issue_id, blocker_id),
                  <<Line("is now blocked by", issue_id, 0, <<blocker_id>>)>>)
         ELSE Outcome(Ok, add_dependency(deps, issue_id, blocker_id),
                  <<Msg("Dependency already exists")>>)

\* block with the self-block test ahead of the two existence checks
block_outcome_selffirst(db, deps, issue_id, blocker_id) ==
    IF issue_id = blocker_id THEN Outcome(SelfBlock, deps, <<>>)
    ELSE IF ~ issue_exists(db, issue_id)
         THEN Outcome(NotFound(issue_id), deps, <<>>)
    ELSE IF ~ issue_exists(db, blocker_id)
         THEN Outcome(NotFound(blocker_id), deps, <<>>)
    ELSE IF dependency_added(deps, issue_id, blocker_id)
         THEN Outcome(Ok, add_dependency(deps, issue_id, blocker_id),
                  <<Line("is now blocked by", issue_id, 0, <<blocker_id>>)>>)
         ELSE Outcome(Ok, add_dependency(deps, issue_id, blocker_id),
                  <<Msg("Dependency already exists")>>)

\* block that ignores what add_dependency returns
block_outcome_ignoresadded(db, deps, issue_id, blocker_id) ==
    IF ~ issue_exists(db, issue_id) THEN Outcome(NotFound(issue_id), deps, <<>>)
    ELSE IF ~ issue_exists(db, blocker_id)
         THEN Outcome(NotFound(blocker_id), deps, <<>>)
    ELSE IF issue_id = blocker_id THEN Outcome(SelfBlock, deps, <<>>)
    ELSE Outcome(Ok, add_dependency(deps, issue_id, blocker_id),
             <<Line("is now blocked by", issue_id, 0, <<blocker_id>>)>>)

\* block that refuses an edge whose reverse is recorded
block_outcome_nocycle(db, deps, issue_id, blocker_id) ==
    IF ~ issue_exists(db, issue_id) THEN Outcome(NotFound(issue_id), deps, <<>>)
    ELSE IF ~ issue_exists(db, blocker_id)
         THEN Outcome(NotFound(blocker_id), deps, <<>>)
    ELSE IF issue_id = blocker_id THEN Outcome(SelfBlock, deps, <<>>)
    ELSE IF BagIn(<<blocker_id, issue_id>>, deps)
         THEN Outcome([kind |-> "Cycle", id |-> 0], deps, <<>>)
    ELSE IF dependency_added(deps, issue_id, blocker_id)
         THEN Outcome(Ok, add_dependency(deps, issue_id, blocker_id),
                  <<Line("is now blocked by", issue_id, 0, <<blocker_id>>)>>)
         ELSE Outcome(Ok, add_dependency(deps, issue_id, blocker_id),
                  <<Msg("Dependency already exists")>>)

\* block that requires the blocked issue only
block_outcome_oneexists(db, deps, issue_id, blocker_id) ==
    IF ~ issue_exists(db, issue_id) THEN Outcome(NotFound(issue_id), deps, <<>>)
    ELSE IF issue_id = blocker_id THEN Outcome(SelfBlock, deps, <<>>)
    ELSE IF dependency_added(deps, issue_id, blocker_id)
         THEN Outcome(Ok, add_dependency(deps, issue_id, blocker_id),
                  <<Line("is now blocked by", issue_id, 0, <<blocker_id>>)>>)
         ELSE Outcome(Ok, add_dependency(deps, issue_id, blocker_id),
                  <<Msg("Dependency already exists")>>)

\* block: both issues are required, then the self-block test, then the row
block_outcome(db, deps, issue_id, blocker_id) ==
    IF ~ issue_exists(db, issue_id) THEN Outcome(NotFound(issue_id), deps, <<>>)
    ELSE IF ~ issue_exists(db, blocker_id)
         THEN Outcome(NotFound(blocker_id), deps, <<>>)
    ELSE IF issue_id = blocker_id THEN Outcome(SelfBlock, deps, <<>>)
    ELSE IF dependency_added(deps, issue_id, blocker_id)
         THEN Outcome(Ok, add_dependency(deps, issue_id, blocker_id),
                  <<Line("is now blocked by", issue_id, 0, <<blocker_id>>)>>)
         ELSE Outcome(Ok, add_dependency(deps, issue_id, blocker_id),
                  <<Msg("Dependency already exists")>>)

block(issue_id, blocker_id) ==
    LET o == block_outcome(issues, dependencies, issue_id, blocker_id)
    IN /\ Cardinality(Edges(o.deps)) <= MaxEdges
       /\ dependencies' = o.deps
       /\ result' = o.result
       /\ stdout' = o.stdout
       /\ call' = Call("block", issue_id, blocker_id, NoFilter, 0)
       /\ UNCHANGED <<issues, walk>>

\* unblock with the two ids handed to remove_dependency in the wrong order
unblock_outcome_swapped(db, deps, issue_id, blocker_id) ==
    IF dependency_removed(deps, blocker_id, issue_id)
    THEN Outcome(Ok, remove_dependency(deps, blocker_id, issue_id),
             <<Line("Removed: no longer blocked by", issue_id, 0, <<blocker_id>>)>>)
    ELSE Outcome(Ok, remove_dependency(deps, blocker_id, issue_id),
             <<Msg("No such dependency found")>>)

\* unblock that removes the dependency in both directions
unblock_outcome_both(db, deps, issue_id, blocker_id) ==
    IF dependency_removed(deps, issue_id, blocker_id)
    THEN Outcome(Ok, remove_dependency(remove_dependency(deps, issue_id, blocker_id),
                         blocker_id, issue_id),
             <<Line("Removed: no longer blocked by", issue_id, 0, <<blocker_id>>)>>)
    ELSE Outcome(Ok, remove_dependency(deps, issue_id, blocker_id),
             <<Msg("No such dependency found")>>)

\* unblock that requires both issues first, as block does
unblock_outcome_required(db, deps, issue_id, blocker_id) ==
    IF ~ issue_exists(db, issue_id) THEN Outcome(NotFound(issue_id), deps, <<>>)
    ELSE IF ~ issue_exists(db, blocker_id)
         THEN Outcome(NotFound(blocker_id), deps, <<>>)
    ELSE IF dependency_removed(deps, issue_id, blocker_id)
    THEN Outcome(Ok, remove_dependency(deps, issue_id, blocker_id),
             <<Line("Removed: no longer blocked by", issue_id, 0, <<blocker_id>>)>>)
    ELSE Outcome(Ok, remove_dependency(deps, issue_id, blocker_id),
             <<Msg("No such dependency found")>>)

\* unblock: no existence check, the store's answer picks the message
unblock_outcome(db, deps, issue_id, blocker_id) ==
    IF dependency_removed(deps, issue_id, blocker_id)
    THEN Outcome(Ok, remove_dependency(deps, issue_id, blocker_id),
             <<Line("Removed: no longer blocked by", issue_id, 0, <<blocker_id>>)>>)
    ELSE Outcome(Ok, remove_dependency(deps, issue_id, blocker_id),
             <<Msg("No such dependency found")>>)

unblock(issue_id, blocker_id) ==
    LET o == unblock_outcome(issues, dependencies, issue_id, blocker_id)
    IN /\ dependencies' = o.deps
       /\ result' = o.result
       /\ stdout' = o.stdout
       /\ call' = Call("unblock", issue_id, blocker_id, NoFilter, 0)
       /\ UNCHANGED <<issues, walk>>

\* list_blocked: one line per blocked issue, with its blockers
RECURSIVE blocked_lines(_, _)
blocked_lines(deps, is) ==
    IF is = <<>> THEN <<>>
    ELSE <<Line("blocked by:", Head(is), 0, get_blockers(deps, Head(is)))>>
             \o blocked_lines(deps, Tail(is))

\* list_blocked that leaves out the issues whose blockers are all closed
list_blocked_stdout_openonly(db, deps) ==
    LET is == SelectSeq(list_blocked_issues(db, deps),
                  LAMBDA i : \E e \in Edges(deps) :
                      e[1] = i /\ issue_exists(db, e[2]) /\ db[e[2]].status = "open")
    IN IF is = <<>> THEN <<Msg("No blocked issues.")>>
       ELSE <<Msg("Blocked issues:")>> \o blocked_lines(deps, is)

list_blocked_stdout(db, deps) ==
    LET is == list_blocked_issues(db, deps)
    IN IF is = <<>> THEN <<Msg("No blocked issues.")>>
       ELSE <<Msg("Blocked issues:")>> \o blocked_lines(deps, is)

list_blocked ==
    /\ stdout' = list_blocked_stdout(issues, dependencies)
    /\ result' = Ok
    /\ call' = Call("list_blocked", 0, 0, NoFilter, 0)
    /\ UNCHANGED <<issues, dependencies, walk>>

\* list_ready: one line per ready issue
RECURSIVE ready_lines(_)
ready_lines(is) ==
    IF is = <<>> THEN <<>>
    ELSE <<Line("ready", Head(is), 0, <<>>)>> \o ready_lines(Tail(is))

\* list_ready that also holds back an issue when a blocker of one of its
\* blockers is open
list_ready_stdout_transitive(db, deps) ==
    LET is == SelectSeq(list_ready_issues(db, deps),
                  LAMBDA i : ~ \E e \in Edges(deps), f \in Edges(deps) :
                      /\ e[1] = i /\ f[1] = e[2]
                      /\ issue_exists(db, f[2]) /\ db[f[2]].status = "open")
    IN IF is = <<>> THEN <<Msg("No ready issues.")>>
       ELSE <<Msg("Ready issues (no blockers):")>> \o ready_lines(is)

\* list_ready that reads the blocked issues, as list_blocked does
list_ready_stdout_blocked(db, deps) ==
    LET is == list_blocked_issues(db, deps)
    IN IF is = <<>> THEN <<Msg("No ready issues.")>>
       ELSE <<Msg("Ready issues (no blockers):")>> \o ready_lines(is)

\* list_ready that reads every issue
list_ready_stdout_all(db, deps) ==
    LET is == list_issues(db, NoFilter)
    IN IF is = <<>> THEN <<Msg("No ready issues.")>>
       ELSE <<Msg("Ready issues (no blockers):")>> \o ready_lines(is)

list_ready_stdout(db, deps) ==
    LET is == list_ready_issues(db, deps)
    IN IF is = <<>> THEN <<Msg("No ready issues.")>>
       ELSE <<Msg("Ready issues (no blockers):")>> \o ready_lines(is)

list_ready ==
    /\ stdout' = list_ready_stdout(issues, dependencies)
    /\ result' = Ok
    /\ call' = Call("list_ready", 0, 0, NoFilter, 0)
    /\ UNCHANGED <<issues, dependencies, walk>>

\* ------------------------------------------------- the store's mutators
create_issue(limit) ==
    /\ Len(issues) < limit
    /\ issues' = insert_issue(issues, NoParent)
    /\ result' = Ok
    /\ stdout' = <<>>
    /\ call' = Call("create_issue", Len(issues) + 1, 0, NoFilter, 0)
    /\ UNCHANGED <<dependencies, walk>>

close_issue(id) ==
    /\ issue_exists(issues, id)
    /\ issues' = set_status(issues, id, "closed")
    /\ result' = Ok
    /\ stdout' = <<>>
    /\ call' = Call("close_issue", id, 0, NoFilter, 0)
    /\ UNCHANGED <<dependencies, walk>>

reopen_issue(id) ==
    /\ issue_exists(issues, id)
    /\ issues' = set_status(issues, id, "open")
    /\ result' = Ok
    /\ stdout' = <<>>
    /\ call' = Call("reopen_issue", id, 0, NoFilter, 0)
    /\ UNCHANGED <<dependencies, walk>>

create_subissue(limit, parent_id) ==
    /\ Len(issues) < limit
    /\ issue_exists(issues, parent_id)
    /\ issues' = insert_issue(issues, parent_id)
    /\ result' = Ok
    /\ stdout' = <<>>
    /\ call' = Call("create_subissue", Len(issues) + 1, parent_id, NoFilter, 0)
    /\ UNCHANGED <<dependencies, walk>>

\* ------------------------------------------------------------ tree.rs
status_icon(status) ==
    IF status = "open" THEN " "
    ELSE IF status = "closed" THEN "x"
    ELSE "?"

\* the state of a run: the lines printed so far, the store reads made so
\* far, the read that fails (0: none) and whether it has failed
Io(failAt) == [out |-> <<>>, reads |-> 0, failAt |-> failAt, err |-> FALSE]

\* one store read: it fails iff it is read number failAt
store_read(io) ==
    [io EXCEPT !.reads = @ + 1, !.err = (io.reads + 1 = io.failAt)]

print_issue(db, id, indent, io) ==
    [io EXCEPT !.out = Append(@, Line(status_icon(db[id].status), id, indent, <<>>))]

\* the filter test that lets every child through
dominated_by_filter_never(db, sub, status_filter) == FALSE

dominated_by_filter(db, sub, status_filter) ==
    IF status_filter \in {NoFilter, "all"} THEN FALSE
    ELSE db[sub].status # status_filter

RECURSIVE print_tree_recursive(_, _, _, _, _)
RECURSIVE for_subissues(_, _, _, _, _)

\* the loop that prints a child after its subtree
for_subissues_postorder(db, subissues, indent, status_filter, io) ==
    IF subissues = <<>> THEN io
    ELSE LET sub == Head(subissues)
         IN IF dominated_by_filter(db, sub, status_filter)
            THEN for_subissues(db, Tail(subissues), indent, status_filter, io)
            ELSE LET io2 == print_tree_recursive(db, sub, indent + 1,
                                status_filter, io)
                 IN IF io2.err THEN io2
                    ELSE for_subissues(db, Tail(subissues), indent, status_filter,
                             print_issue(db, sub, indent, io2))

\* the loop that drops the error of the recursive call and goes on
for_subissues_swallow(db, subissues, indent, status_filter, io) ==
    IF subissues = <<>> THEN io
    ELSE LET sub == Head(subissues)
         IN IF dominated_by_filter(db, sub, status_filter)
            THEN for_subissues(db, Tail(subissues), indent, status_filter, io)
            ELSE LET io2 == print_tree_recursive(db, sub, indent + 1, status_filter,
                                print_issue(db, sub, indent, io))
                 IN for_subissues(db, Tail(subissues), indent, status_filter,
                        [io2 EXCEPT !.err = FALSE])

\* the loop that still visits the children of a filtered-out child
for_subissues_noprune(db, subissues, indent, status_filter, io) ==
    IF subissues = <<>> THEN io
    ELSE LET sub == Head(subissues)
             io2 == print_tree_recursive(db, sub, indent + 1, status_filter,
                        IF dominated_by_filter(db, sub, status_filter) THEN io
                        ELSE print_issue(db, sub, indent, io))
         IN IF io2.err THEN io2
            ELSE for_subissues(db, Tail(subissues), indent, status_filter, io2)

\* the loop over the children read; a failed recursive call returns at once
for_subissues(db, subissues, indent, status_filter, io) ==
    IF subissues = <<>> THEN io
    ELSE LET sub == Head(subissues)
         IN IF dominated_by_filter(db, sub, status_filter)
            THEN for_subissues(db, Tail(subissues), indent, status_filter, io)
            ELSE LET io2 == print_tree_recursive(db, sub, indent + 1, status_filter,
                                print_issue(db, sub, indent, io))
                 IN IF io2.err THEN io2
                    ELSE for_subissues(db, Tail(subissues), indent, status_filter, io2)

print_tree_recursive(db, parent_id, indent, status_filter, io) ==
    LET io1 == store_read(io)
    IN IF io1.err THEN io1
       ELSE for_subissues(db, get_subissues(db, parent_id), indent, status_filter, io1)

\* the top level read without the status filter
top_level_anystatus(db, status_filter) ==
    SelectSeq(list_issues(db, NoFilter), LAMBDA i : db[i].parent_id = NoParent)

\* the top level without the parent_id.is_none() filter
top_level_unfiltered(db, status_filter) == list_issues(db, status_filter)

\* the issues run prints at depth 0
top_level(db, status_filter) ==
    SelectSeq(list_issues(db, status_filter), LAMBDA i : db[i].parent_id = NoParent)

\* the loop over the top-level issues
RECURSIVE for_top_level(_, _, _, _)
for_top_level(db, tops, status_filter, io) ==
    IF tops = <<>> THEN io
    ELSE LET io2 == print_tree_recursive(db, Head(tops), 1, status_filter,
                        print_issue(db, Head(tops), 0, io))
         IN IF io2.err THEN io2
            ELSE for_top_level(db, Tail(tops), status_filter, io2)

Legend == <<Msg(""), Msg("Legend: [ ] open, [x] closed")>>

run_io(db, status_filter, failAt) ==
    LET io1 == store_read(Io(failAt))
    IN IF io1.err THEN io1
       ELSE IF top_level(db, status_filter) = <<>>
            THEN [io1 EXCEPT !.out = <<Msg("No issues found.")>>]
            ELSE LET io2 == for_top_level(db, top_level(db, status_filter),
                                status_filter, io1)
                 IN IF io2.err THEN io2
                    ELSE [io2 EXCEPT !.out = @ \o Legend]

run(status_filter, failAt) ==
    /\ stdout' = run_io(issues, status_filter, failAt).out
    /\ result' = IF run_io(issues, status_filter, failAt).err THEN StoreError ELSE Ok
    /\ call' = Call("run", 0, 0, status_filter, failAt)
    /\ UNCHANGED <<issues, dependencies, walk>>

\* ------------------------------------------- tree.rs, call by call
\* tree::run as the sequence of its calls: `tops` are the top-level issues
\* still to print, `stack` holds one frame per print_tree_recursive call
\* that has not returned (the parent it was called for, the children still
\* to visit, its indent), `io` what is printed so far
WalkIdle ==
    [pc |-> "idle", filter |-> NoFilter, tops |-> <<>>, stack |-> <<>>,
     io |-> Io(0)]

Frame(db, parent_id, indent) ==
    [parent_id |-> parent_id, subissues |-> get_subissues(db, parent_id),
     indent |-> indent]

\* run up to its loop: the top-level issues are read
walk_run ==
    /\ walk.pc = "start"
    /\ walk' = IF top_level(issues, walk.filter) = <<>>
               THEN [walk EXCEPT !.pc = "done",
                                 !.io.out = <<Msg("No issues found.")>>]
               ELSE [walk EXCEPT !.pc = "roots",
                                 !.tops = top_level(issues, walk.filter)]
    /\ UNCHANGED <<issues, dependencies, call, result, stdout>>

\* one turn of run's loop, up to the entry of print_tree_recursive
walk_root ==
    /\ walk.pc = "roots"
    /\ walk.stack = <<>>
    /\ walk.tops # <<>>
    /\ walk' = [walk EXCEPT
                   !.tops = Tail(@),
                   !.io = print_issue(issues, Head(walk.tops), 0, @),
                   !.stack = <<Frame(issues, Head(walk.tops), 1)>>]
    /\ UNCHANGED <<issues, dependencies, call, result, stdout>>

\* the recursive call made on parent_id instead of sub.id
sub_frame_sameparent(db, frame, sub) == Frame(db, frame.parent_id, frame.indent + 1)

\* the frame print_tree_recursive's loop enters for a child it prints
sub_frame(db, frame, sub) == Frame(db, sub, frame.indent + 1)

\* one turn of print_tree_recursive's loop: the child is skipped, or
\* printed and print_tree_recursive entered for it
walk_sub ==
    /\ walk.stack # <<>>
    /\ walk.stack[Len(walk.stack)].subissues # <<>>
    /\ LET top == Len(walk.stack)
           frame == walk.stack[top]
           sub == Head(frame.subissues)
       IN walk' = IF dominated_by_filter(issues, sub, walk.filter)
                  THEN [walk EXCEPT !.stack[top].subissues = Tail(@)]
                  ELSE [walk EXCEPT
                           !.io = print_issue(issues, sub, frame.indent, @),
                           !.stack = Append([@ EXCEPT ![top].subissues = Tail(@)],
                                         sub_frame(issues, frame, sub))]
    /\ UNCHANGED <<issues, dependencies, call, result, stdout>>

\* print_tree_recursive returns: its loop is over
walk_return ==
    /\ walk.stack # <<>>
    /\ walk.stack[Len(walk.stack)].subissues = <<>>
    /\ walk' = [walk EXCEPT !.stack = SubSeq(@, 1, Len(@) - 1)]
    /\ UNCHANGED <<issues, dependencies, call, result, stdout>>

\* run's loop is over: the legend
walk_legend ==
    /\ walk.pc = "roots"
    /\ walk.stack = <<>>
    /\ walk.tops = <<>>
    /\ walk' = [walk EXCEPT !.pc = "done", !.io.out = @ \o Legend]
    /\ UNCHANGED <<issues, dependencies, call, result, stdout>>

\* any contents of the issues table, with parent references the store's
\* create_subissue could not have written: to itself, to a later issue,
\* around a cycle
Stores ==
    UNION {[1..n -> [status : {"open", "closed"}, parent_id : 0..n]]
               : n \in 0..MaxWalkIssues}

InitWalk ==
    /\ issues \in Stores
    /\ dependencies = EmptyBag
    /\ call = Call("run", 0, 0, NoFilter, 0)
    /\ result = Ok
    /\ stdout = <<>>
    /\ \E f \in Filters : walk = [WalkIdle EXCEPT !.pc = "start", !.filter = f]

NextWalk ==
    \/ walk_run
    \/ walk_root
    \/ walk_sub
    \/ walk_return
    \/ walk_legend

\* run is sequential code: a call that can be made is made
SpecWalk == InitWalk /\ [][NextWalk]_vars /\ WF_vars(NextWalk)

\* --------------------------------------------------------- specification
Init ==
    /\ issues = <<>>
    /\ dependencies = EmptyBag
    /\ call = Call("open", 0, 0, NoFilter, 0)
    /\ result = Ok
    /\ stdout = <<>>
    /\ walk = WalkIdle

NextDeps ==
    \/ create_issue(MaxIssues)
    \/ \E id \in ArgIds : close_issue(id)
    \/ \E id \in ArgIds : reopen_issue(id)
    \/ \E a \in ArgIds, b \in ArgIds : block(a, b)
    \/ \E a \in ArgIds, b \in ArgIds : unblock(a, b)
    \/ list_blocked
    \/ list_ready

SpecDeps == Init /\ [][NextDeps]_vars

NextTree ==
    \/ create_issue(MaxTreeIssues)
    \/ \E p \in 1..MaxTreeIssues : create_subissue(MaxTreeIssues, p)
    \/ \E id \in 1..MaxTreeIssues : close_issue(id)
    \/ \E id \in 1..MaxTreeIssues : reopen_issue(id)
    \/ \E f \in Filters, k \in 0..MaxFailAt : run(f, k)

SpecTree == Init /\ [][NextTree]_vars

\* every command over one store
Next ==
    \/ create_issue(MaxSpecIssues)
    \/ \E p \in ArgIds : create_subissue(MaxSpecIssues, p)
    \/ \E id \in ArgIds : close_issue(id)
    \/ \E id \in ArgIds : reopen_issue(id)
    \/ \E a \in ArgIds, b \in ArgIds : block(a, b)
    \/ \E a \in ArgIds, b \in ArgIds : unblock(a, b)
    \/ list_blocked
    \/ list_ready
    \/ \E f \in Filters, k \in 0..MaxFailAt : run(f, k)

Spec == Init /\ [][Next]_vars

TypeOK ==
    /\ \A i \in Ids(issues) : issues[i].status \in {"open", "closed"}
    /\ \A e \in Edges(dependencies) : dependencies[e] >= 1

\* ------------------------------------------------- what the commands show
\* the issues a printed output has a line for
PrintedIds(out) == {out[k].id : k \in 1..Len(out)} \ {0}

\* the issues list_ready / list_blocked print in the current state
ReadyIds == PrintedIds(list_ready_stdout(issues, dependencies))
BlockedIds == PrintedIds(list_blocked_stdout(issues, dependencies))

\* the same for any store contents
ReadyIn(db, deps) == PrintedIds(list_ready_stdout(db, deps))
BlockedIn(db, deps) == PrintedIds(list_blocked_stdout(db, deps))

\* blockers_of(a)
BlockersOf(a) == SeqToSet(get_blockers(dependencies, a))

IsOpen(i) == issue_exists(issues, i) /\ issues[i].status = "open"
IsClosed(i) == issue_exists(issues, i) /\ issues[i].status = "closed"

NoDuplicates(s) == \A j, k \in 1..Len(s) : s[j] = s[k] => j = k

\* ------------------------------------------------------------------ C1
\* C1: in every reachable state, an open issue with at least one open
\* direct blocker is not printed by list_ready, and an open issue all of
\* whose direct blockers are closed is printed by list_ready.
C1_ReadyIffNoOpenBlocker ==
    \A i \in Ids(issues) :
        IsOpen(i) =>
            /\ (\E b \in BlockersOf(i) : IsOpen(b)) => i \notin ReadyIds
            /\ (\A b \in BlockersOf(i) : IsClosed(b)) => i \in ReadyIds

\* the last open blocker of an open issue has just been closed
C1_Witness ==
    /\ call.op = "close_issue"
    /\ \E i \in Ids(issues) :
        /\ IsOpen(i)
        /\ call.a \in BlockersOf(i)
        /\ \A b \in BlockersOf(i) : IsClosed(b)
        /\ i \in ReadyIds

\* ------------------------------------------------------------------ C2
\* C2: in every reachable state no closed issue is printed by list_ready,
\* whatever its blockers are.
C2_ClosedNeverReady ==
    \A i \in Ids(issues) : IsClosed(i) => i \notin ReadyIds

\* list_ready has run while a closed issue had only closed blockers and
\* another closed issue had none
C2_Witness ==
    /\ call.op = "list_ready"
    /\ \E i, j \in Ids(issues) :
        /\ IsClosed(i) /\ BlockersOf(i) # {}
        /\ \A b \in BlockersOf(i) : IsClosed(b)
        /\ IsClosed(j) /\ BlockersOf(j) = {}
        /\ {i, j} \cap PrintedIds(stdout) = {}

\* ------------------------------------------------------------------ C3
\* C3: after block(a, b) on existing issues a # b the call has returned Ok,
\* b is among the blockers of a and a is printed by list_blocked.
C3_BlockCreatesDependency ==
    (/\ call.op = "block"
     /\ issue_exists(issues, call.a)
     /\ issue_exists(issues, call.b)
     /\ call.a # call.b)
    => /\ result = Ok
       /\ call.b \in BlockersOf(call.a)
       /\ call.a \in BlockedIds

\* block(a, b) has just added the edge
C3_Witness ==
    /\ call.op = "block"
    /\ result = Ok
    /\ stdout = <<Line("is now blocked by", call.a, 0, <<call.b>>)>>
    /\ call.b \in BlockersOf(call.a)
    /\ call.a \in BlockedIds

\* ------------------------------------------------------------------ C4
\* C4: a step block(a, a) on an existing issue a returns SelfBlock and
\* changes neither the dependencies table nor any issue.
C4_SelfBlockRejected ==
    [][(/\ call'.op = "block"
        /\ call'.a = call'.b
        /\ issue_exists(issues, call'.a))
       => /\ result' = SelfBlock
          /\ dependencies' = dependencies
          /\ issues' = issues]_vars

\* block(a, a) has been refused while the table held an edge
C4_Witness ==
    /\ call.op = "block"
    /\ call.a = call.b
    /\ issue_exists(issues, call.a)
    /\ result = SelfBlock
    /\ Edges(dependencies) # {}

\* ------------------------------------------------------------------ C5
\* C5: a step block(a, b) in which a or b is not an existing issue returns
\* NotFound naming a missing argument, also when a = b, and leaves the
\* dependencies table as it was.
C5_BlockNotFound ==
    [][(/\ call'.op = "block"
        /\ (~ issue_exists(issues, call'.a) \/ ~ issue_exists(issues, call'.b)))
       => /\ result'.kind = "NotFound"
          /\ result'.id \in {call'.a, call'.b}
          /\ ~ issue_exists(issues, result'.id)
          /\ dependencies' = dependencies]_vars

\* block(x, x) on a missing id x has been refused with NotFound
C5_Witness ==
    /\ call.op = "block"
    /\ call.a = call.b
    /\ ~ issue_exists(issues, call.a)
    /\ result = NotFound(call.a)
    /\ Edges(dependencies) # {}

\* ------------------------------------------------------------------ C6
\* C6: a step block(a, b) on existing a # b while the edge (a, b) is
\* recorded returns Ok, prints "Dependency already exists" and leaves the
\* dependencies table as it was; every edge is recorded exactly once and
\* the blockers of a hold no duplicate.
C6_BlockIdempotent ==
    [][(/\ call'.op = "block"
        /\ <<call'.a, call'.b>> \in Edges(dependencies))
       => /\ result' = Ok
          /\ stdout' = <<Msg("Dependency already exists")>>
          /\ dependencies' = dependencies
          /\ CopiesIn(<<call'.a, call'.b>>, dependencies') = 1
          /\ NoDuplicates(get_blockers(dependencies', call'.a))
          /\ Len(get_blockers(dependencies', call'.a))
                 = Len(get_blockers(dependencies, call'.a))]_vars

\* the second block(a, b) has run
C6_Witness ==
    /\ call.op = "block"
    /\ result = Ok
    /\ stdout = <<Msg("Dependency already exists")>>
    /\ CopiesIn(<<call.a, call.b>>, dependencies) = 1

\* ------------------------------------------------------------------ C7
\* C7: a step unblock(a, b) while the edge (a, b) is not recorded returns
\* Ok, prints "No such dependency found" and leaves the dependencies table
\* as it was, whether or not a and b are existing issues.
C7_UnblockAbsentEdge ==
    [][(/\ call'.op = "unblock"
        /\ <<call'.a, call'.b>> \notin Edges(dependencies))
       => /\ result' = Ok
          /\ stdout' = <<Msg("No such dependency found")>>
          /\ dependencies' = dependencies]_vars

\* unblock has run on an id that is no issue, beside a recorded edge
C7_Witness ==
    /\ call.op = "unblock"
    /\ ~ issue_exists(issues, call.a)
    /\ result = Ok
    /\ stdout = <<Msg("No such dependency found")>>
    /\ Edges(dependencies) # {}

\* ------------------------------------------------------- what run shows
\* the ancestors of an issue, its parent first
RECURSIVE Ancestors(_, _)
Ancestors(db, i) ==
    IF db[i].parent_id = NoParent \/ ~ issue_exists(db, db[i].parent_id) THEN <<>>
    ELSE <<db[i].parent_id>> \o Ancestors(db, db[i].parent_id)

Depth(db, i) == Len(Ancestors(db, i))

\* the lines of an output that show an issue, as <<id, indent>>
IssueLines(out) == SelectSeq(out, LAMBDA l : l.id # 0)
Emitted(out) == [k \in 1..Len(IssueLines(out)) |->
                    <<IssueLines(out)[k].id, IssueLines(out)[k].indent>>]

\* how many lines of an output show issue i
TimesEmitted(out, i) == Cardinality({k \in 1..Len(out) : out[k].id = i})

ConcreteFilter(f) == f \in {"open", "closed"}

\* ------------------------------------------------------------------ C8
\* C8 as stated: after run with a concrete status filter, every issue whose
\* status equals the filter and that has an ancestor whose status does not
\* is shown, at a depth equal to its number of ancestors.
C8_DescendantsNotPruned ==
    (call.op = "run" /\ ConcreteFilter(call.filter) /\ result = Ok)
    => \A i \in Ids(issues) :
           (/\ issues[i].status = call.filter
            /\ \E p \in SeqToSet(Ancestors(issues, i)) :
                   issues[p].status # call.filter)
           => <<i, Depth(issues, i)>> \in SeqToSet(Emitted(stdout))

\* C8 as amended: after run with a concrete status filter, no issue whose
\* status differs from the filter is shown and no descendant of such an
\* issue is shown, whatever its own status; every issue shown is shown at
\* a depth equal to its number of ancestors.
C8_FilterPrunesDescendants ==
    (call.op = "run" /\ ConcreteFilter(call.filter))
    => /\ \A i \in Ids(issues) :
              (\/ issues[i].status # call.filter
               \/ \E p \in SeqToSet(Ancestors(issues, i)) :
                      issues[p].status # call.filter)
              => TimesEmitted(stdout, i) = 0
       /\ \A e \in SeqToSet(Emitted(stdout)) :
              issue_exists(issues, e[1]) /\ e[2] = Depth(issues, e[1])

\* run "open" has completed and printed an open root, while an open issue
\* below a closed child of that root stayed out
C8_Witness ==
    /\ call.op = "run" /\ call.filter = "open" /\ result = Ok
    /\ \E r, c, g \in Ids(issues) :
        /\ issues[r].parent_id = NoParent /\ IsOpen(r)
        /\ issues[c].parent_id = r /\ IsClosed(c)
        /\ issues[g].parent_id = c /\ IsOpen(g)
        /\ <<r, 0>> \in SeqToSet(Emitted(stdout))
        /\ TimesEmitted(stdout, g) = 0

\* ------------------------------------------------------------------ C9
\* C9: after a completed run with filter "all" or with no filter, every
\* issue is shown exactly once, at a depth equal to its number of
\* ancestors, and nothing else is shown.
C9_AllVisitsEachOnce ==
    (call.op = "run" /\ call.filter \in {NoFilter, "all"} /\ result = Ok)
    => /\ \A i \in Ids(issues) :
              /\ TimesEmitted(stdout, i) = 1
              /\ <<i, Depth(issues, i)>> \in SeqToSet(Emitted(stdout))
       /\ Len(Emitted(stdout)) = Len(issues)

\* a completed unfiltered run over a forest with a grandchild and two roots
C9_Witness ==
    /\ call.op = "run" /\ call.filter \in {NoFilter, "all"} /\ result = Ok
    /\ \E i, j \in Ids(issues) :
        /\ Depth(issues, i) = 2
        /\ <<i, 2>> \in SeqToSet(Emitted(stdout))
        /\ i # j /\ Depth(issues, j) = 0
        /\ issues[j].status = "closed"
        /\ <<j, 0>> \in SeqToSet(Emitted(stdout))

\* ------------------------------------------------------------------ C10
\* C10: after run with a concrete status filter, every issue shown has a
\* status equal to the filter; for 1 = open root, 2 = open child of 1,
\* 3 = closed child of 1, a completed run "open" shows exactly
\* <<1, 0>>, <<2, 1>>.
ExampleForest ==
    <<[status |-> "open", parent_id |-> NoParent],
      [status |-> "open", parent_id |-> 1],
      [status |-> "closed", parent_id |-> 1]>>

C10_EmittedMatchFilter ==
    (call.op = "run" /\ ConcreteFilter(call.filter))
    => /\ \A e \in SeqToSet(Emitted(stdout)) :
              issue_exists(issues, e[1]) /\ issues[e[1]].status = call.filter
       /\ (issues = ExampleForest /\ call.filter = "open" /\ result = Ok)
              => Emitted(stdout) = <<<<1, 0>>, <<2, 1>>>>

\* the example forest has been printed with filter "open"
C10_Witness ==
    /\ call.op = "run" /\ call.filter = "open" /\ result = Ok
    /\ issues = ExampleForest
    /\ Emitted(stdout) = <<<<1, 0>>, <<2, 1>>>>
\* ------------------------------------------------------------------ C11
\* C11: after every step that changes the issues or the dependencies table
\* list_blocked prints exactly the issues that have a blocker edge, whatever
\* the statuses are; a close_issue or reopen_issue step leaves the
\* dependencies table and the issues list_blocked prints as they were; and
\* an open issue whose blocker has just been closed, and that has no open
\* blocker left, is printed by list_blocked and by list_ready.
C11_BlockedIgnoresStatus ==
    [][/\ (issues' # issues \/ dependencies' # dependencies)
              => BlockedIn(issues', dependencies')
                     = {e[1] : e \in Edges(dependencies')}
       /\ call'.op \in {"close_issue", "reopen_issue"}
              => /\ dependencies' = dependencies
                 /\ BlockedIn(issues', dependencies') = BlockedIn(issues, dependencies)
       /\ call'.op = "close_issue"
              => \A i \in Ids(issues') :
                     (/\ issues'[i].status = "open"
                      /\ <<i, call'.a>> \in Edges(dependencies')
                      /\ \A e \in Edges(dependencies') :
                             e[1] = i => issues'[e[2]].status = "closed")
                     => /\ i \in BlockedIn(issues', dependencies')
                        /\ i \in ReadyIn(issues', dependencies')]_vars

\* the only blocker of an open issue has just been closed
C11_Witness ==
    /\ call.op = "close_issue"
    /\ \E i \in Ids(issues) :
        /\ IsOpen(i)
        /\ BlockersOf(i) = {call.a}
        /\ IsClosed(call.a)
        /\ i \in BlockedIds
        /\ i \in ReadyIds
\* ------------------------------------------------------------------ C12
\* C12: in a chain where a is blocked by b alone and b is blocked by c
\* alone, an open a is printed by list_ready exactly when b is closed,
\* whether c is open or closed, and an open b exactly when c is closed; so
\* with c closed and b open, b is printed and a is not.
C12_DirectBlockersOnly ==
    \A a, b, c \in Ids(issues) :
        (/\ Cardinality({a, b, c}) = 3
         /\ BlockersOf(a) = {b}
         /\ BlockersOf(b) = {c})
        => /\ IsOpen(a) => (a \in ReadyIds <=> IsClosed(b))
           /\ IsOpen(b) => (b \in ReadyIds <=> IsClosed(c))

\* c has just been closed in an otherwise open chain: b is ready, a is not
C12_Witness ==
    /\ call.op = "close_issue"
    /\ \E a, b \in Ids(issues) :
        /\ Cardinality({a, b, call.a}) = 3
        /\ BlockersOf(a) = {b}
        /\ BlockersOf(b) = {call.a}
        /\ IsOpen(a) /\ IsOpen(b) /\ IsClosed(call.a)
        /\ b \in ReadyIds
        /\ a \notin ReadyIds
\* ------------------------------------------------------------------ C13
\* C13 as stated: in every state in which the edges (a, b) and (b, a) are
\* both recorded, neither a nor b is printed by list_ready.
C13_CycleNeverReady ==
    \A a, b \in Ids(issues) :
        (/\ a # b
         /\ <<a, b>> \in Edges(dependencies)
         /\ <<b, a>> \in Edges(dependencies))
        => a \notin ReadyIds /\ b \notin ReadyIds

\* C13 as amended: a step block(b, a) on existing a # b while the edge
\* (a, b) is recorded returns Ok and leaves both edges recorded; and after
\* every step, while both edges are recorded and a and b are both open,
\* neither a nor b is printed by list_ready.
C13_CycleOpenNeverReady ==
    [][/\ (/\ call'.op = "block"
           /\ call'.a # call'.b
           /\ issue_exists(issues, call'.a)
           /\ issue_exists(issues, call'.b)
           /\ <<call'.b, call'.a>> \in Edges(dependencies))
          => /\ result' = Ok
             /\ <<call'.a, call'.b>> \in Edges(dependencies')
             /\ <<call'.b, call'.a>> \in Edges(dependencies')
       /\ \A a, b \in Ids(issues') :
              (/\ a # b
               /\ <<a, b>> \in Edges(dependencies')
               /\ <<b, a>> \in Edges(dependencies')
               /\ issues'[a].status = "open"
               /\ issues'[b].status = "open")
              => /\ a \notin ReadyIn(issues', dependencies')
                 /\ b \notin ReadyIn(issues', dependencies')]_vars

\* the second block has just closed a cycle between two open issues
C13_Witness ==
    /\ call.op = "block"
    /\ result = Ok
    /\ stdout = <<Line("is now blocked by", call.a, 0, <<call.b>>)>>
    /\ <<call.b, call.a>> \in Edges(dependencies)
    /\ <<call.a, call.b>> \in Edges(dependencies)
    /\ IsOpen(call.a) /\ IsOpen(call.b)
    /\ call.a \notin ReadyIds
    /\ call.b \notin ReadyIds
\* ------------------------------------------------------------------ C14
\* C14: a step block(a, b) that adds the edge (a, b) leaves a printed by
\* list_blocked, and unblock(a, b) run right after it returns Ok, prints
\* "Removed", gives back the dependencies table of before the block and
\* leaves a printed by list_blocked only if a has another blocker; and a
\* step unblock(a, b) while the edge is recorded prints "Removed" and
\* removes that edge and nothing else.
C14_BlockUnblockRoundTrip ==
    [][/\ (/\ call'.op = "block"
           /\ result' = Ok
           /\ <<call'.a, call'.b>> \notin Edges(dependencies))
          => LET u == unblock_outcome(issues', dependencies', call'.a, call'.b)
             IN /\ call'.a \in BlockedIn(issues', dependencies')
                /\ u.result = Ok
                /\ u.stdout = <<Line("Removed: no longer blocked by",
                                    call'.a, 0, <<call'.b>>)>>
                /\ u.deps = dependencies
                /\ call'.a \in BlockedIn(issues', u.deps)
                       => \E c \in Ids(issues) :
                              c # call'.b /\ <<call'.a, c>> \in Edges(dependencies)
       /\ (/\ call'.op = "unblock"
           /\ <<call'.a, call'.b>> \in Edges(dependencies))
          => /\ result' = Ok
             /\ stdout' = <<Line("Removed: no longer blocked by",
                                 call'.a, 0, <<call'.b>>)>>
             /\ <<call'.a, call'.b>> \notin Edges(dependencies')
             /\ add_dependency(dependencies', call'.a, call'.b) = dependencies
             /\ call'.a \in BlockedIn(issues', dependencies')
                    => \E c \in Ids(issues) :
                           c # call'.b /\ <<call'.a, c>> \in Edges(dependencies')]_vars

\* unblock(a, b) has just removed the only blocker edge of a
C14_Witness ==
    /\ call.op = "unblock"
    /\ result = Ok
    /\ stdout = <<Line("Removed: no longer blocked by", call.a, 0, <<call.b>>)>>
    /\ issue_exists(issues, call.a)
    /\ call.a \notin BlockedIds
    /\ Edges(dependencies) # {}
\* ------------------------------------------------------------------ C15
\* C15: in every reachable state every recorded edge joins two different
\* existing issues, and an id that is no existing issue has no blockers.
C15_EdgesWellFormed ==
    /\ \A e \in Edges(dependencies) :
           /\ e[1] # e[2]
           /\ issue_exists(issues, e[1])
           /\ issue_exists(issues, e[2])
    /\ \A x \in ArgIds :
           ~ issue_exists(issues, x) => get_blockers(dependencies, x) = <<>>

\* block on a missing blocker has been refused beside recorded edges
C15_Witness ==
    /\ call.op = "block"
    /\ issue_exists(issues, call.a)
    /\ ~ issue_exists(issues, call.b)
    /\ result = NotFound(call.b)
    /\ get_blockers(dependencies, call.b) = <<>>
    /\ Cardinality(Edges(dependencies)) >= 2
\* ------------------------------------------------------------------ C16
\* the place of issue i among the issues shown (0: not shown)
Pos(out, i) ==
    IF \E k \in 1..Len(Emitted(out)) : Emitted(out)[k][1] = i
    THEN CHOOSE k \in 1..Len(Emitted(out)) : Emitted(out)[k][1] = i
    ELSE 0

\* C16: after a completed run the issues shown are in pre-order: of two
\* shown issues with the same parent (or both without one) the lower id
\* comes first; a shown sub-issue comes after its parent, with nothing but
\* descendants of that parent in between, one level deeper than the
\* parent; issues without a parent are at depth 0.
C16_PreOrder ==
    (call.op = "run" /\ result = Ok)
    => LET E == Emitted(stdout)
           Shown == {E[k][1] : k \in 1..Len(E)}
       IN /\ \A i, j \in Shown :
                 (i < j /\ issues[i].parent_id = issues[j].parent_id)
                 => Pos(stdout, i) < Pos(stdout, j)
          /\ \A i \in Shown :
                 IF issues[i].parent_id = NoParent
                 THEN E[Pos(stdout, i)][2] = 0
                 ELSE LET p == issues[i].parent_id
                      IN /\ p \in Shown
                         /\ Pos(stdout, p) < Pos(stdout, i)
                         /\ E[Pos(stdout, i)][2] = E[Pos(stdout, p)][2] + 1
                         /\ \A k \in (Pos(stdout, p) + 1)..Pos(stdout, i) :
                                p \in SeqToSet(Ancestors(issues, E[k][1]))

\* a completed run over a root with a child, a grandchild and a second child
C16_Witness ==
    /\ call.op = "run" /\ result = Ok
    /\ \E r, c, g, s \in Ids(issues) :
        /\ issues[r].parent_id = NoParent
        /\ issues[c].parent_id = r
        /\ issues[g].parent_id = c
        /\ issues[s].parent_id = r
        /\ c < s
        /\ Emitted(stdout) = <<<<r, 0>>, <<c, 1>>, <<g, 2>>, <<s, 1>>>>
\* ------------------------------------------------------------------ C17
\* C17: a run whose store read number k fails, k being one of the reads
\* the run makes, returns the store's error and has printed exactly the
\* first k - 1 lines of what the run prints when no read fails, all of
\* them issue lines: no later sibling, no later root and no legend; a run
\* in which no read fails returns Ok.
C17_StoreErrorAborts ==
    call.op = "run"
    => LET full == run_io(issues, call.filter, 0)
       IN IF call.failAt \in 1..full.reads
          THEN /\ result = StoreError
               /\ stdout = SubSeq(full.out, 1, call.failAt - 1)
               /\ \A k \in 1..Len(stdout) : stdout[k].id # 0
               /\ \A l \in SeqToSet(Legend) : l \notin SeqToSet(stdout)
          ELSE /\ result = Ok
               /\ stdout = full.out

\* the read of the first child's children has failed: the root and that
\* child are printed, the child's sibling and the second root are not
C17_Witness ==
    /\ call.op = "run" /\ result = StoreError
    /\ \E r, c, s, t \in Ids(issues) :
        /\ issues[r].parent_id = NoParent
        /\ issues[c].parent_id = r
        /\ issues[s].parent_id = r
        /\ issues[t].parent_id = NoParent
        /\ c < s /\ r < t
        /\ Emitted(stdout) = <<<<r, 0>>, <<c, 1>>>>
        /\ Len(stdout) = 2
        /\ {<<s, 1>>, <<t, 0>>}
               \subseteq SeqToSet(Emitted(run_io(issues, call.filter, 0).out))
\* ------------------------------------------------------------------ C19
\* C19: after a completed run with a concrete status filter, an issue is
\* shown if and only if its status and the status of every one of its
\* ancestors equal the filter.
C19_EmittedIffChainMatches ==
    (call.op = "run" /\ ConcreteFilter(call.filter) /\ result = Ok)
    => \A i \in Ids(issues) :
           i \in PrintedIds(stdout)
           <=> /\ issues[i].status = call.filter
               /\ \A p \in SeqToSet(Ancestors(issues, i)) :
                      issues[p].status = call.filter

\* a completed run "closed" that shows a closed child of a closed root and
\* leaves out a closed child of an open root
C19_Witness ==
    /\ call.op = "run" /\ call.filter = "closed" /\ result = Ok
    /\ \E g, h \in Ids(issues) :
        /\ Depth(issues, g) = 1
        /\ g \in PrintedIds(stdout)
        /\ IsClosed(h)
        /\ Depth(issues, h) = 1
        /\ IsOpen(issues[h].parent_id)
        /\ h \notin PrintedIds(stdout)
\* ------------------------------------------------------------------ C20
\* C20: a block or unblock step changes no issue and no dependency row but
\* those of the edge (issue_id, blocker_id); a list_blocked, list_ready or
\* run step changes neither the issues nor the dependencies table.
C20_Frame ==
    [][/\ call'.op \in {"block", "unblock"}
              => /\ issues' = issues
                 /\ \A e \in Edges(dependencies) \cup Edges(dependencies') :
                        e # <<call'.a, call'.b>>
                        => CopiesIn(e, dependencies') = CopiesIn(e, dependencies)
       /\ call'.op \in {"list_blocked", "list_ready", "run"}
              => /\ issues' = issues
                 /\ dependencies' = dependencies]_vars

\* unblock has removed one edge of a sub-issue and left the other edge
C20_Witness ==
    /\ call.op = "unblock"
    /\ stdout = <<Line("Removed: no longer blocked by", call.a, 0, <<call.b>>)>>
    /\ <<call.b, call.a>> \in Edges(dependencies)
    /\ <<call.a, call.b>> \notin Edges(dependencies)
    /\ \E i \in Ids(issues) : issues[i].parent_id # NoParent /\ IsClosed(i)
\* ------------------------------------------------------------------ C18
\* the issue reached from i by following parent_id n times (0: none)
RECURSIVE ParentN(_, _, _)
ParentN(db, i, n) ==
    IF n = 0 \/ i = NoParent \/ ~ issue_exists(db, i) THEN i
    ELSE ParentN(db, db[i].parent_id, n - 1)

\* i lies on a parent cycle
OnCycle(db, i) == \E n \in 1..Len(db) : ParentN(db, i, n) = i

\* the parent chain of i ends at a top-level issue
Rooted(db, i) == ParentN(db, i, Len(db)) = NoParent

Acyclic(db) == \A i \in Ids(db) : Rooted(db, i)

\* the number of ancestors of a rooted issue
RootedDepth(db, i) ==
    CHOOSE n \in 0..Len(db) :
        /\ ParentN(db, i, n) # NoParent
        /\ ParentN(db, i, n + 1) = NoParent

\* the depth of the forest of rooted issues (0: no issue)
ForestDepth(db) ==
    IF \E i \in Ids(db) : Rooted(db, i)
    THEN CHOOSE d \in 0..Len(db) :
             /\ \E i \in Ids(db) : Rooted(db, i) /\ RootedDepth(db, i) = d
             /\ \A i \in Ids(db) : Rooted(db, i) => RootedDepth(db, i) <= d
    ELSE 0

\* what the walk printed once done is what run prints
WalkRefinesRun ==
    walk.pc = "done" => walk.io.out = run_io(issues, walk.filter, 0).out

\* C18: every run of tree::run, followed call by call, comes to its end,
\* and never has more print_tree_recursive calls open than the forest is
\* deep, plus one for the call that finds a leaf childless; an issue on a
\* parent cycle, or below one, is never the subject of a call, so that no
\* cycle of the store is ever reached from a top-level issue.
C18_RunTerminates ==
    /\ <>(walk.pc = "done")
    /\ [](Len(walk.stack) <= ForestDepth(issues) + 1)
    /\ [](\A k \in 1..Len(walk.stack) :
              /\ Rooted(issues, walk.stack[k].parent_id)
              /\ walk.stack[k].indent = k
              /\ RootedDepth(issues, walk.stack[k].parent_id) = k - 1)

\* a run over an acyclic forest with a grandchild has ended
C18_Witness ==
    /\ walk.pc = "done"
    /\ Acyclic(issues)
    /\ ForestDepth(issues) = 2
    /\ \E i \in Ids(issues) :
           RootedDepth(issues, i) = 2 /\ <<i, 2>> \in SeqToSet(Emitted(walk.io.out))

\* the deepest call of a run over an acyclic forest with a grandchild
C18_WitnessDepth ==
    /\ Acyclic(issues)
    /\ ForestDepth(issues) = 2
    /\ Len(walk.stack) = 3

\* a run over a store with a parent cycle, all of one status, has ended
C18_WitnessCycle ==
    /\ walk.pc = "done"
    /\ walk.filter = "open"
    /\ \A i \in Ids(issues) : IsOpen(i)
    /\ \E i, j \in Ids(issues) :
           i # j /\ OnCycle(issues, i) /\ Rooted(issues, j)
====
